---- MODULE Spec2Model ----
(***************************************************************************)
(* go-tagexpr: the struct tag expression interpreter of src/tagexpr.go.    *)
(*                                                                         *)
(* The VM keeps a registry (structJar) of one descriptor (Struct) per      *)
(* record type, built lazily by Run and eagerly by WarmUp under a          *)
(* reader/writer lock.  A TagExpr binds a descriptor to an instance and    *)
(* resolves selectors (Eval, Range) and field values (getValue).           *)
(*                                                                         *)
(* Go strings are modelled as sequences of one-character strings, so that  *)
(* the annotation parser and the selector arithmetic work on characters.   *)
(***************************************************************************)
EXTENDS Integers, Sequences, FiniteSets, TLC

VARIABLES
    structJar,  \* VM.structJar: type name -> descriptor id, NoId when absent
    heap,       \* the allocated Struct objects: descriptor id -> Struct
    rw,         \* VM.rw: [writer, readers]
    th,         \* per goroutine: position in Run/WarmUp, call stack, results
    work,       \* history: how often newStruct / newField ran per type
    failed,     \* history: the types whose registration returned an error
    ptag,       \* the annotation of field X of record type P
    inst,       \* the live instance of record type Inst
    res,        \* the result of the last getValue on inst
    rng         \* per goroutine: the Range call in progress and what fn saw

vars == <<structJar, heap, rw, th, work, failed, ptag, inst, res, rng>>

(***************************************************************************)
(* Strings                                                                 *)
(***************************************************************************)
RECURSIVE trimLeftSpace(_)
trimLeftSpace(s) ==
    IF s # <<>> /\ Head(s) = " " THEN trimLeftSpace(Tail(s)) ELSE s

RECURSIVE TrimRight(_)
TrimRight(s) ==
    IF s # <<>> /\ s[Len(s)] = " " THEN TrimRight(SubSeq(s, 1, Len(s) - 1)) ELSE s

TrimSpace(s) == TrimRight(trimLeftSpace(s))

\* strings.Index for a one-character needle: 0-based position, -1 when absent
Index(s, c) ==
    IF \E i \in 1..Len(s) : s[i] = c
    THEN (CHOOSE i \in 1..Len(s) : s[i] = c /\ \A j \in 1..(i - 1) : s[j] # c) - 1
    ELSE -1

\* map insert: m[k] = v
Put(m, k, v) == [x \in (DOMAIN m) \cup {k} |-> IF x = k THEN v ELSE m[x]]

EmptyMap == [x \in {} |-> 0]

(***************************************************************************)
(* The expression collaborator and the paired-symbol reader                *)
(***************************************************************************)
Nil == "nil"

\* parseExpr: compiles an expression source; a source holding "?" does not
\* compile.  The compiled Expr is opaque and identified by its source.
parseExpr(src) ==
    IF \E i \in 1..Len(src) : src[i] = "?"
    THEN [expr |-> <<>>, err |-> "compile"]
    ELSE [expr |-> src, err |-> Nil]

\* position in s (the text after the opening brace) of the closing brace that
\* balances it, 0 when there is none
RECURSIVE scanPaired(_, _, _)
scanPaired(s, i, level) ==
    IF i > Len(s) THEN 0
    ELSE IF s[i] = "}" THEN (IF level = 0 THEN i ELSE scanPaired(s, i + 1, level - 1))
    ELSE IF s[i] = "{" THEN scanPaired(s, i + 1, level + 1)
    ELSE scanPaired(s, i + 1, level)

\* readPairedSymbol(&tag, '{', '}'): the text between the leading brace and
\* its balancing brace, and the text left after it; ok = FALSE is Go's nil
readPairedSymbol(tag) ==
    IF tag = <<>> \/ Head(tag) # "{"
    THEN [ok |-> FALSE, sub |-> <<>>, rest |-> tag]
    ELSE LET s == Tail(tag)
             i == scanPaired(s, 1, 0)
         IN IF i = 0
            THEN [ok |-> FALSE, sub |-> <<>>, rest |-> tag]
            ELSE [ok |-> TRUE, sub |-> SubSeq(s, 1, i - 1), rest |-> SubSeq(s, i + 1, Len(s))]

(***************************************************************************)
(* Field.parseExprs                                                        *)
(***************************************************************************)
\* a Struct: fields and exprs are Go maps, selectorList a slice
newStruct == [fields |-> EmptyMap, exprs |-> EmptyMap, selectorList |-> <<>>]

\* f.host.exprs[selector] = expr; f.host.selectorList = append(..., selector)
addExpr(s, selector, expr) ==
    [s EXCEPT !.exprs = Put(s.exprs, selector, expr),
              !.selectorList = Append(s.selectorList, selector)]

\* _, had := f.host.exprs[selector]; hadNever is the lookup that finds nothing
hadNever(s, selector) == FALSE
hadExpr(s, selector) == selector \in DOMAIN s.exprs

\* idx > 0: the group has text before its first ':'
hasName(idx) == idx > 0

\* the loop over the brace groups of a tag; s is the host descriptor
RECURSIVE parseGroups(_, _, _)
parseGroups(s, name, tag) ==
    LET r == readPairedSymbol(tag)
        idx == Index(r.sub, ":")
        sel0 == TrimSpace(SubSeq(r.sub, 1, idx))
        selector == IF sel0 = <<"@">> THEN name \o sel0 ELSE name \o <<"@">> \o sel0
        exprStr == TrimSpace(SubSeq(r.sub, idx + 2, Len(r.sub)))
        pe == parseExpr(exprStr)
        rest == trimLeftSpace(r.rest)
    IN IF r.ok /\ hasName(idx)
       THEN IF sel0 = <<>> THEN parseGroups(s, name, r.rest)
            ELSE IF hadExpr(s, selector) THEN [s |-> s, err |-> "duplicate"]
            ELSE IF exprStr # <<>>
                 THEN IF pe.err # Nil THEN [s |-> s, err |-> pe.err]
                      ELSE IF rest = <<>>
                           THEN [s |-> addExpr(s, selector, pe.expr), err |-> Nil]
                           ELSE parseGroups(addExpr(s, selector, pe.expr), name, rest)
                 ELSE [s |-> s, err |-> "syntax"]
       ELSE [s |-> s, err |-> "syntax"]

parseExprs(s, name, rawtag) ==
    LET tag == TrimSpace(rawtag)
        pe == parseExpr(tag)
    IN IF tag = <<>> THEN [s |-> s, err |-> Nil]
       ELSE IF Head(tag) # "{"
            THEN IF pe.err # Nil THEN [s |-> s, err |-> pe.err]
                 ELSE [s |-> addExpr(s, name \o <<"@">>, pe.expr), err |-> Nil]
            ELSE parseGroups(s, name, tag)

(***************************************************************************)
(* Record types (reflect.Type)                                             *)
(***************************************************************************)
\* a reflect.StructField: its type is deep pointer layers over kind (over
\* record type elem when kind is Struct)
SF(name, kind, deep, elem, tag) ==
    [name |-> name, kind |-> kind, deep |-> deep, elem |-> elem, tag |-> tag]

TagE == <<"E">>
TagTwo == <<"{", "@", ":", "E", "}", "{", "n", ":", "G", "}">>
TagOpen == <<"{", "@", ":", "E">>

\* the fields of the record types of the model, in declaration order
StructFields(t) ==
    CASE t = "Good" -> <<SF("A", "Int", 0, "", TagE), SF("B", "String", 0, "", <<>>)>>
      [] t = "Bad" -> <<SF("A", "Int", 0, "", TagE), SF("B", "Int", 0, "", TagOpen),
                        SF("C", "Int", 0, "", TagE)>>
      [] t = "Host" -> <<SF("G", "Struct", 1, "Good", <<>>), SF("N", "Struct", 0, "Bad", <<>>),
                         SF("Z", "Int", 0, "", TagE)>>
      [] t = "Self" -> <<SF("F", "Struct", 1, "Self", <<>>)>>
      [] t = "M1" -> <<SF("F", "Struct", 1, "M2", <<>>), SF("A", "Bool", 0, "", TagE)>>
      [] t = "M2" -> <<SF("G", "Struct", 1, "M1", <<>>)>>
      [] t = "P" -> <<SF("X", "Int", 0, "", ptag)>>
      [] t = "Q" -> <<SF("Y", "Int", 0, "", TagE), SF("N", "Struct", 1, "P", <<>>),
                      SF("Z", "String", 0, "", TagTwo)>>
      [] t = "R" -> <<SF("X", "Int", 0, "", ptag), SF("F", "Struct", 1, "R", <<>>)>>
      [] t = "Sub" -> <<SF("A", "Int", 0, "", <<>>), SF("P", "Int", 1, "", <<>>),
                        SF("C", "Chan", 0, "", <<>>)>>
      [] t = "Inst" -> <<SF("I", "Int", 0, "", TagE), SF("P", "Int", 1, "", <<>>),
                         SF("D", "Int", 2, "", <<>>), SF("B", "Bool", 1, "", <<>>),
                         SF("S", "String", 1, "", <<>>), SF("T", "String", 0, "", <<>>),
                         SF("L", "Slice", 0, "", <<>>), SF("R", "Array", 0, "", <<>>),
                         SF("W", "Slice", 1, "", <<>>), SF("M", "Map", 0, "", <<>>),
                         SF("J", "Map", 0, "", <<>>),
                         SF("V", "Struct", 0, "Sub", <<>>), SF("N", "Struct", 1, "Sub", <<>>),
                         SF("O", "Struct", 2, "Sub", <<>>)>>

AllTypes == {"Good", "Bad", "Host", "Self", "M1", "M2", "P", "Q", "R", "Sub", "Inst"}

\* the types whose registration reaches a pointer field of their own type
RecursiveTypes == {"Self", "M1", "M2", "R"}

\* an interface{} argument: nil, or deep pointer layers over an int or a record
Val(kind, deep, t) == [kind |-> kind, deep |-> deep, t |-> t]
NilVal == Val("Nil", 0, "")

(***************************************************************************)
(* Getters (Field.valueGetter)                                             *)
(*                                                                         *)
(* A closure is modelled by what it captured: a sequence of steps, the     *)
(* wrappers copySubFields put around a nested field's getter first, the    *)
(* field's own getter last.  NoGetter is a nil valueGetter.                *)
(***************************************************************************)
NoGetter == <<>>
Step(op, name, deep) == [op |-> op, name |-> name, deep |-> deep]

\* the switch of registerStructLocked on the field's kind below its pointers
kindGetter(sf) ==
    CASE sf.kind = "Int" -> <<Step("float", sf.name, sf.deep)>>
      [] sf.kind = "String" -> <<Step("string", sf.name, sf.deep)>>
      [] sf.kind = "Bool" -> <<Step("bool", sf.name, sf.deep)>>
      [] sf.kind \in {"Map", "Array", "Slice"} -> <<Step("length", sf.name, sf.deep)>>
      [] sf.kind = "Struct" -> NoGetter
      [] OTHER -> <<Step("nilfn", sf.name, 0)>>

\* a Field: the embedded StructField, the host descriptor, the getter
Field(sf, host, getter) == [sf |-> sf, host |-> host, getter |-> getter]

(***************************************************************************)
(* Struct.copySubFields                                                    *)
(***************************************************************************)
MaxSelfVisits == 1

\* The orders in which a range over a Go map can produce its keys while the
\* loop body inserts ns.k for every key k it is given.  Every key present at
\* the start is produced once; a key inserted during the loop (possible only
\* when the map ranged over is the map written to) may be produced or
\* skipped.  budget caps the number of inserted keys that are produced.
RECURSIVE rangeOrders(_, _, _, _, _, _)
rangeOrders(seq, todo, fresh, ns, same, budget) ==
    (IF todo = {} THEN {seq} ELSE {})
    \cup UNION { rangeOrders(Append(seq, k), todo \ {k},
                             (fresh \ {k}) \cup
                                 (IF same /\ (ns \o <<".">> \o k) \notin todo
                                  THEN {ns \o <<".">> \o k} ELSE {}),
                             ns, same,
                             IF k \in todo THEN budget ELSE budget - 1)
                 : k \in todo \cup (IF budget > 0 THEN fresh ELSE {}) }

\* the first loop: s.fields[nameSpace+"."+k] = f for each k, v of sub.fields;
\* src is the map ranged over, which is dst itself when sub is s
RECURSIVE copyFields(_, _, _, _, _, _)
copyFields(dst, src, same, order, ns, wrap) ==
    IF order = <<>> THEN dst
    ELSE LET k == Head(order)
             v == IF same THEN dst[k] ELSE src[k]
             f == Field(v.sf, v.host,
                        IF v.getter # NoGetter THEN <<wrap>> \o v.getter ELSE NoGetter)
         IN copyFields(Put(dst, ns \o <<".">> \o k, f), src, same, Tail(order), ns, wrap)

\* the second loop: s.exprs[selector] = v; s.selectorList = append(...)
RECURSIVE copyExprs(_, _, _, _, _)
copyExprs(s, src, same, order, ns) ==
    IF order = <<>> THEN s
    ELSE LET k == Head(order)
             v == IF same THEN s.exprs[k] ELSE src[k]
         IN copyExprs(addExpr(s, ns \o <<".">> \o k, v), src, same, Tail(order), ns)

\* every descriptor s can be after s.copySubFields(field, sub, ptrDeep)
copySubFields(s, sf, sub, same) ==
    LET ns == <<sf.name>>
        wrap == Step("sub", sf.name, sf.deep)
    IN { copyExprs([s EXCEPT !.fields = copyFields(s.fields, sub.fields, same, fo, ns, wrap)],
                   sub.exprs, same, eo, ns)
         : fo \in rangeOrders(<<>>, DOMAIN sub.fields, {}, ns, same, MaxSelfVisits),
           eo \in rangeOrders(<<>>, DOMAIN sub.exprs, {}, ns, same, MaxSelfVisits) }

(***************************************************************************)
(* Go values and memory                                                    *)
(*                                                                         *)
(* A record instance is a Struct value; a base address is the Struct it    *)
(* points at, or NilBase for address 0 (plus an offset).  A float64 is an  *)
(* integer number h of halves, so that int(float) truncates.  Fault is a   *)
(* panic or an invalid memory read.                                        *)
(***************************************************************************)
NilV == [k |-> "nil"]
Fault == [k |-> "fault"]
Invalid == [k |-> "Invalid"]
NilBase == [k |-> "NilBase"]
IntV(n) == [k |-> "Int", v |-> n]
Uint8V(c) == [k |-> "Uint8", v |-> c]
F64(h) == [k |-> "Float64", h |-> h]
BoolV(b) == [k |-> "Bool", v |-> b]
StrV(cs) == [k |-> "String", v |-> cs]
NilPtr == [k |-> "Ptr", nil |-> TRUE, elem |-> Invalid]
PtrTo(v) == [k |-> "Ptr", nil |-> FALSE, elem |-> v]
SliceV(es) == [k |-> "Slice", nil |-> FALSE, elems |-> es]
ArrayV(es) == [k |-> "Array", elems |-> es]
MapV(key, m) == [k |-> "Map", nil |-> FALSE, key |-> key, m |-> m]
StructV(f) == [k |-> "Struct", f |-> f]
ChanV == [k |-> "Chan", nil |-> TRUE]

\* int(float): truncation toward zero
ToInt(h) == IF h >= 0 THEN h \div 2 ELSE -((-h) \div 2)

CharCode(c) == CASE c = "a" -> 97 [] c = "b" -> 98 [] OTHER -> 63

\* getFloat64(kind, ptr): the number at ptr widened to float64
getFloat64(v) ==
    CASE v.k = "Int" -> F64(2 * v.v)
      [] v.k = "Uint8" -> F64(2 * CharCode(v.v))
      [] v.k = "Float64" -> v
      [] OTHER -> NilV

\* n times v = v.Elem(): Elem of a nil pointer is the zero Value, Elem of
\* the zero Value panics
RECURSIVE elemTimes(_, _)
elemTimes(v, n) ==
    IF n = 0 THEN v
    ELSE IF v.k # "Ptr" THEN Fault
    ELSE IF v.nil THEN elemTimes(Invalid, n - 1)
    ELSE elemTimes(v.elem, n - 1)

\* Field.newFrom(ptr, ptrDeep): the field at ptr+f.Offset, dereferenced
newFrom(base, name, deep) ==
    IF base = NilBase THEN Fault ELSE elemTimes(base.f[name], deep)

\* f.valueGetter(ptr)
RECURSIVE valueGetter(_, _)
valueGetter(g, base) ==
    LET st == Head(g)
        v == newFrom(base, st.name, st.deep)
        \* copySubFields, lines 318-322: NewAt(field.Type, ...) and ptrDeep Elem()
        outer == IF base = NilBase THEN Fault ELSE elemTimes(base.f[st.name], st.deep - 1)
    IN CASE st.op = "nilfn" -> NilV
         [] st.op = "sub" /\ st.deep = 0 ->
               valueGetter(Tail(g), IF base = NilBase THEN NilBase ELSE base.f[st.name])
         [] st.op = "sub" /\ st.deep > 0 ->
               IF outer = Fault \/ outer.k # "Ptr" THEN Fault
               ELSE valueGetter(Tail(g), IF outer.nil THEN NilBase ELSE outer.elem)
         [] st.op = "float" ->
               IF v = Fault THEN Fault
               ELSE IF v = Invalid THEN NilV
               ELSE getFloat64(v)
         [] st.op \in {"bool", "string"} ->
               IF v = Fault THEN Fault
               ELSE IF v = Invalid THEN NilV
               ELSE v
         [] st.op = "length" ->
               IF v = Fault \/ v = Invalid THEN Fault ELSE v

(***************************************************************************)
(* TagExpr.getValue                                                        *)
(***************************************************************************)
\* for vv.Kind() == reflect.Ptr { vv = vv.Elem() }
RECURSIVE derefAll(_)
derefAll(vv) ==
    IF vv.k = "Ptr" THEN (IF vv.nil THEN Invalid ELSE derefAll(vv.elem)) ELSE vv

\* v.Convert(t) under recover: a float64 converts to an integer key, a string
\* to a string key; any other conversion panics and yields the zero Value
safeConvert(k, key) ==
    CASE key = "String" /\ k.k = "String" -> [ok |-> TRUE, key |-> k.v]
      [] key = "Int" /\ k.k = "Float64" -> [ok |-> TRUE, key |-> ToInt(k.h)]
      [] OTHER -> [ok |-> FALSE, key |-> 0]

seqLen(vv) == IF vv.k = "String" THEN Len(vv.v) ELSE Len(vv.elems)
seqAt(vv, i) == IF vv.k = "String" THEN Uint8V(vv.v[i]) ELSE vv.elems[i]

\* idx >= vv.Len()
pastEnd(idx, n) == idx >= n

\* lines 452-472: the value after the subscripts
terminal(vv0) ==
    LET vv == derefAll(vv0)
    IN CASE vv.k \in {"String", "Bool"} -> vv
         [] vv.k \in {"Int", "Uint8", "Float64"} -> getFloat64(vv)
         [] vv.k \in {"Slice", "Map", "Chan"} -> IF vv.nil THEN NilV ELSE vv
         [] OTHER -> Fault

\* lines 427-451: the subscripts, one after the other
RECURSIVE subscript(_, _)
subscript(vv0, subFields) ==
    IF subFields = <<>> THEN terminal(vv0)
    ELSE LET vv == derefAll(vv0)
             k == Head(subFields)
             idx == ToInt(k.h)
             ck == safeConvert(k, vv.key)
         IN CASE vv.k \in {"Slice", "Array", "String"} ->
                    IF k.k = "Float64"
                    THEN IF pastEnd(idx, seqLen(vv)) THEN NilV
                         ELSE IF idx < 0 THEN Fault
                         ELSE subscript(seqAt(vv, idx + 1), Tail(subFields))
                    ELSE NilV
              [] vv.k = "Map" ->
                    IF ~ck.ok THEN NilV
                    ELSE subscript(IF ck.key \in DOMAIN vv.m THEN vv.m[ck.key] ELSE Invalid,
                                   Tail(subFields))
              [] OTHER -> NilV

\* f.valueGetter(t.ptr) as getValue calls it, lines 412-419
rootValue(s, base, field) ==
    IF field \notin DOMAIN s.fields THEN NilV
    ELSE IF s.fields[field].getter = NoGetter THEN NilV
    ELSE valueGetter(s.fields[field].getter, base)

getValue(s, base, field, subFields) ==
    LET v == rootValue(s, base, field)
    IN IF v = NilV \/ v = Fault THEN v
       ELSE IF subFields = <<>> THEN v
       ELSE subscript(v, subFields)

NoRes == [asked |-> FALSE, field |-> <<>>, subFields |-> <<>>, root |-> NilV, val |-> NilV]

(***************************************************************************)
(* The registry: VM.structJar under VM.rw                                  *)
(***************************************************************************)
Threads == {"g1", "g2"}

MaxDepth == 4

Id(t, n) == [t |-> t, n |-> n]
NoId == Id("", 0)

\* s, had := vm.structJar[structTypeName]
had(jar, t) == jar[t] # NoId

\* vm.structJar[structTypeName] = s; JarKeep is the store left out
JarKeep(jar, t, id) == jar
JarPut(jar, t, id) == [jar EXCEPT ![t] = id]

\* sync.RWMutex: RLock waits for the writer, Lock for the writer and the readers;
\* NoExclusion is an RLock that waits for nobody, NoWriterExclusion a Lock that
\* does not wait for the writer
NoExclusion(l) == TRUE
CanRLock(l) == l.writer = "none"
NoWriterExclusion(l) == l.readers = {}
CanLock(l) == l.writer = "none" /\ l.readers = {}

\* a frame of registerStructLocked: the type, the descriptor s, whether this
\* call created s, the loop index, the position, the error being returned
Frame(t) == [t |-> t, id |-> NoId, own |-> FALSE, i |-> 0, st |-> "check", err |-> Nil]

\* a Range call: the TagExpr's descriptor, the loop index, what fn was called
\* with and answered, the results of the expressions run
NoRange == [te |-> NoId, i |-> 0, seen |-> <<>>, evald |-> <<>>]

NoRet == [t |-> "", err |-> Nil]
Idle == [pc |-> "idle", op |-> "", t |-> "", args |-> <<>>, k |-> 0, stack |-> <<>>,
         s |-> NoId, err |-> Nil, ctx |-> NoId, ret |-> NoRet, ev |-> <<>>]

Top(p) == th[p].stack[Len(th[p].stack)]
SetTop(p, f) == [th EXCEPT ![p].stack[Len(th[p].stack)] = f]

regUnchanged == UNCHANGED <<ptag, inst, res, rng>>

\* Run, lines 80-93: the argument must be a pointer to a record
RunCall(p, v) ==
    /\ th[p].pc = "idle"
    /\ th' = IF v.kind = "Struct" /\ v.deep = 1
             THEN [th EXCEPT ![p] = [Idle EXCEPT !.pc = "rlock", !.op = "Run", !.t = v.t]]
             ELSE [th EXCEPT ![p] = [Idle EXCEPT !.ret = [t |-> "", err |-> "invalid"]]]
    /\ UNCHANGED <<structJar, heap, rw, work, failed>>
    /\ regUnchanged

\* line 94
RunRLock(p) ==
    /\ th[p].pc = "rlock"
    /\ CanRLock(rw)
    /\ rw' = [rw EXCEPT !.readers = @ \cup {p}]
    /\ th' = [th EXCEPT ![p].pc = "rread"]
    /\ UNCHANGED <<structJar, heap, work, failed>>
    /\ regUnchanged

\* lines 95-97
RunRead(p) ==
    /\ th[p].pc = "rread"
    /\ rw' = [rw EXCEPT !.readers = @ \ {p}]
    /\ th' = [th EXCEPT ![p].s = structJar[th[p].t],
                        ![p].pc = IF had(structJar, th[p].t) THEN "bind" ELSE "lock"]
    /\ UNCHANGED <<structJar, heap, work, failed>>
    /\ regUnchanged

\* line 98
RunLock(p) ==
    /\ th[p].pc = "lock"
    /\ CanLock(rw)
    /\ rw' = [rw EXCEPT !.writer = p]
    /\ th' = [th EXCEPT ![p].pc = "recheck"]
    /\ UNCHANGED <<structJar, heap, work, failed>>
    /\ regUnchanged

\* lines 99-101
RunRecheck(p) ==
    /\ th[p].pc = "recheck"
    /\ th' = IF had(structJar, th[p].t)
             THEN [th EXCEPT ![p].s = structJar[th[p].t], ![p].pc = "unlock"]
             ELSE [th EXCEPT ![p].stack = <<Frame(th[p].t)>>, ![p].pc = "reg"]
    /\ UNCHANGED <<structJar, heap, rw, work, failed>>
    /\ regUnchanged

\* lines 102-107
RunUnlock(p) ==
    /\ th[p].pc = "unlock"
    /\ rw' = [rw EXCEPT !.writer = "none"]
    /\ th' = IF th[p].err # Nil
             THEN [th EXCEPT ![p] = [Idle EXCEPT !.ret = [t |-> th[p].t, err |-> th[p].err]]]
             ELSE [th EXCEPT ![p].pc = "bind"]
    /\ UNCHANGED <<structJar, heap, work, failed>>
    /\ regUnchanged

\* line 109: s.newTagExpr(v.Pointer())
newTagExpr(p) ==
    /\ th[p].pc = "bind"
    /\ th' = [th EXCEPT ![p] = [Idle EXCEPT !.ctx = th[p].s,
                                            !.ret = [t |-> th[p].t, err |-> Nil]]]
    /\ UNCHANGED <<structJar, heap, rw, work, failed>>
    /\ regUnchanged

\* WarmUp, lines 61-62
WarmCall(p, vs) ==
    /\ th[p].pc = "idle"
    /\ CanLock(rw)
    /\ rw' = [rw EXCEPT !.writer = p]
    /\ th' = [th EXCEPT ![p] = [Idle EXCEPT !.pc = "warm", !.op = "WarmUp", !.args = vs,
                                            !.k = 1, !.ctx = th[p].ctx]]
    /\ UNCHANGED <<structJar, heap, work, failed>>
    /\ regUnchanged

\* WarmUp, lines 63-72 with the deferred Unlock, and getStructType (336-345)
\* at the head of registerStructLocked
WarmStep(p) ==
    /\ th[p].pc = "warm"
    /\ LET me == th[p]
           v == me.args[me.k]
           return(t, e) == [th EXCEPT ![p] = [Idle EXCEPT !.ctx = me.ctx,
                                                          !.ret = [t |-> t, err |-> e]]]
       IN IF me.err # Nil
          THEN th' = return(me.t, me.err) /\ rw' = [rw EXCEPT !.writer = "none"]
          ELSE IF me.k > Len(me.args)
          THEN th' = return(me.t, Nil) /\ rw' = [rw EXCEPT !.writer = "none"]
          ELSE IF v.kind = "Nil"
          THEN th' = return("", "nilarg") /\ rw' = [rw EXCEPT !.writer = "none"]
          ELSE IF v.kind # "Struct"
          THEN th' = return("", "notstruct") /\ rw' = [rw EXCEPT !.writer = "none"]
          ELSE /\ th' = [th EXCEPT ![p].t = v.t, ![p].stack = <<Frame(v.t)>>,
                                   ![p].pc = "reg"]
               /\ rw' = rw
    /\ UNCHANGED <<structJar, heap, work, failed>>
    /\ regUnchanged

\* registerStructLocked, lines 118-121
RegCheck(p) ==
    /\ th[p].pc = "reg"
    /\ Top(p).st = "check"
    /\ th' = IF had(structJar, Top(p).t)
             THEN SetTop(p, [Top(p) EXCEPT !.id = structJar[Top(p).t], !.st = "ret"])
             ELSE SetTop(p, [Top(p) EXCEPT !.st = "new"])
    /\ UNCHANGED <<structJar, heap, rw, work, failed>>
    /\ regUnchanged

\* registerStructLocked, lines 122-124
RegNew(p) ==
    /\ th[p].pc = "reg"
    /\ Top(p).st = "new"
    /\ LET t == Top(p).t
           id == Id(t, work[t].built + 1)
       IN /\ heap' = Put(heap, id, newStruct)
          /\ structJar' = JarPut(structJar, t, id)
          /\ work' = [work EXCEPT ![t].built = @ + 1]
          /\ th' = SetTop(p, [Top(p) EXCEPT !.id = id, !.own = TRUE, !.i = 1, !.st = "loop"])
    /\ UNCHANGED <<rw, failed>>
    /\ regUnchanged

\* registerStructLocked, lines 127-158: one field; newField (172-183) parses
\* its tag, a record-typed field enters the nested registration (line 143)
RegField(p) ==
    /\ th[p].pc = "reg"
    /\ Top(p).st = "loop"
    /\ Top(p).i <= Len(StructFields(Top(p).t))
    /\ LET f == Top(p)
           sf == StructFields(f.t)[f.i]
           pr == parseExprs(heap[f.id], <<sf.name>>, sf.tag)
           s1 == [pr.s EXCEPT !.fields = Put(@, <<sf.name>>, Field(sf, f.id, kindGetter(sf)))]
       IN /\ work' = [work EXCEPT ![f.t].fields = @ + 1]
          /\ IF pr.err # Nil
             THEN /\ heap' = [heap EXCEPT ![f.id] = pr.s]
                  /\ th' = SetTop(p, [f EXCEPT !.st = "ret", !.err = pr.err])
             ELSE IF sf.kind = "Struct"
             THEN /\ Len(th[p].stack) < MaxDepth
                  /\ heap' = [heap EXCEPT ![f.id] = s1]
                  /\ th' = [th EXCEPT ![p].stack =
                               Append(SubSeq(@, 1, Len(@) - 1), [f EXCEPT !.st = "wait"])
                               \o <<Frame(sf.elem)>>]
             ELSE /\ heap' = [heap EXCEPT ![f.id] = s1]
                  /\ th' = SetTop(p, [f EXCEPT !.i = @ + 1])
    /\ UNCHANGED <<structJar, rw, failed>>
    /\ regUnchanged

Returning(f) == f.st = "ret" \/ (f.st = "loop" /\ f.i > Len(StructFields(f.t)))

\* a nested registerStructLocked returns into lines 143-147 of its caller
RegReturn(p) ==
    /\ th[p].pc = "reg"
    /\ Len(th[p].stack) > 1
    /\ Returning(Top(p))
    /\ LET n == Len(th[p].stack)
           sub == Top(p)
           f == th[p].stack[n - 1]
           sf == StructFields(f.t)[f.i]
           below == SubSeq(th[p].stack, 1, n - 2)
       IN IF sub.err # Nil
          THEN /\ th' = [th EXCEPT ![p].stack =
                            Append(below, [f EXCEPT !.st = "ret", !.err = sub.err])]
               /\ failed' = failed \cup {sub.t}
               /\ heap' = heap
          ELSE /\ \E s2 \in copySubFields(heap[f.id], sf, heap[sub.id], sub.id = f.id) :
                      heap' = [heap EXCEPT ![f.id] = s2]
               /\ th' = [th EXCEPT ![p].stack =
                            Append(below, [f EXCEPT !.st = "loop", !.i = @ + 1])]
               /\ failed' = failed
    /\ UNCHANGED <<structJar, rw, work>>
    /\ regUnchanged

\* the outermost registerStructLocked returns to Run (line 101) or WarmUp (67)
RegDone(p) ==
    /\ th[p].pc = "reg"
    /\ Len(th[p].stack) = 1
    /\ Returning(Top(p))
    /\ LET f == Top(p)
       IN /\ th' = [th EXCEPT ![p].stack = <<>>,
                              ![p].s = IF f.err = Nil THEN f.id ELSE NoId,
                              ![p].err = f.err,
                              ![p].k = @ + 1,
                              ![p].pc = IF th[p].op = "Run" THEN "unlock" ELSE "warm"]
          /\ failed' = IF f.err # Nil THEN failed \cup {f.t} ELSE failed
    /\ UNCHANGED <<structJar, heap, rw, work>>
    /\ regUnchanged

(***************************************************************************)
(* TagExpr.Eval                                                            *)
(***************************************************************************)
getFieldSelector(selector) ==
    LET idx == Index(selector, "@")
    IN IF idx = -1 THEN selector ELSE SubSeq(selector, 1, idx)

\* Expr.run(field, t): opaque; the model keeps the expression and its argument
run(expr, field) == <<expr, field>>

\* Eval reads the descriptor of the TagExpr without taking the lock
Eval(p, selector) ==
    /\ th[p].pc = "idle"
    /\ th[p].ctx # NoId
    /\ LET exprs == heap[th[p].ctx].exprs
       IN th' = [th EXCEPT ![p].ev =
                    IF selector \in DOMAIN exprs
                    THEN run(exprs[selector], getFieldSelector(selector))
                    ELSE <<>>]
    /\ UNCHANGED <<structJar, heap, rw, work, failed>>
    /\ regUnchanged

(***************************************************************************)
(* Two goroutines on one VM                                                *)
(***************************************************************************)
RegTypes == {"Good", "Bad", "Host", "Self"}

InitReg ==
    /\ structJar = [t \in AllTypes |-> NoId]
    /\ heap = EmptyMap
    /\ rw = [writer |-> "none", readers |-> {}]
    /\ th = [p \in Threads |-> Idle]
    /\ work = [t \in AllTypes |-> [built |-> 0, fields |-> 0]]
    /\ failed = {}

Init ==
    /\ InitReg
    /\ ptag = TagE
    /\ inst = NilBase
    /\ res = NoRes
    /\ rng = [p \in Threads |-> NoRange]

RunArgs == {Val("Struct", 1, t) : t \in RegTypes} \cup {NilVal, Val("Struct", 0, "Good")}
WarmArgs == {<<Val("Struct", d, t)>> : d \in {0, 1}, t \in RegTypes}
            \cup {<<Val("Struct", 1, "Bad"), Val("Struct", 1, "Good")>>}
EvalSelectors == {<<"A", "@">>}

Next ==
    \E p \in Threads :
        \/ \E v \in RunArgs : RunCall(p, v)
        \/ RunRLock(p)
        \/ RunRead(p)
        \/ RunLock(p)
        \/ RunRecheck(p)
        \/ RunUnlock(p)
        \/ newTagExpr(p)
        \/ \E vs \in WarmArgs : WarmCall(p, vs)
        \/ WarmStep(p)
        \/ RegCheck(p)
        \/ RegNew(p)
        \/ RegField(p)
        \/ RegReturn(p)
        \/ RegDone(p)
        \/ \E sel \in EvalSelectors : Eval(p, sel)

Spec == Init /\ [][Next]_vars

(***************************************************************************)
(* Recursive record types, one goroutine                                   *)
(***************************************************************************)
RecArgs == {Val("Struct", 1, t) : t \in {"Self", "M1", "M2"}}

NextRec ==
    \/ \E v \in RecArgs : RunCall("g1", v)
    \/ RunRLock("g1")
    \/ RunRead("g1")
    \/ RunLock("g1")
    \/ RunRecheck("g1")
    \/ RunUnlock("g1")
    \/ newTagExpr("g1")
    \/ \E v \in RecArgs : WarmCall("g1", <<v>>)
    \/ WarmStep("g1")
    \/ RegCheck("g1")
    \/ RegNew("g1")
    \/ RegField("g1")
    \/ RegReturn("g1")
    \/ RegDone("g1")

SpecRec == Init /\ [][NextRec]_vars

(***************************************************************************)
(* Annotations: one goroutine registers P, Q (which nests P) and R (which  *)
(* nests itself); the annotation of their field X is drawn from Tags       *)
(***************************************************************************)
MaxGroups == 2

Segments == { <<"{", "@", ":", "E", "}">>, <<"{", "@", ":", "G", "}">>,
              <<"{", "n", ":", "G", "}">>, <<"{", ":", "E", "}">>,
              <<"{", " ", ":", "E", "}">>, <<"{", "@", ":", "}">>,
              <<"{", "@", ":", "?", "}">>, <<"{", "@", ":", "E">>,
              <<" ">>, <<"E">> }

RECURSIVE TagsOf(_)
TagsOf(n) ==
    IF n = 0 THEN {<<>>}
    ELSE TagsOf(n - 1) \cup {t \o g : t \in TagsOf(n - 1), g \in Segments}

Tags == TagsOf(MaxGroups)

InitParse ==
    /\ InitReg
    /\ ptag \in Tags
    /\ inst = NilBase
    /\ res = NoRes
    /\ rng = [p \in Threads |-> NoRange]

ParseArgs == {Val("Struct", 1, t) : t \in {"P", "Q", "R"}}

NextParse ==
    \/ \E v \in ParseArgs : RunCall("g1", v)
    \/ RunRLock("g1")
    \/ RunRead("g1")
    \/ RunLock("g1")
    \/ RunRecheck("g1")
    \/ RunUnlock("g1")
    \/ newTagExpr("g1")
    \/ \E v \in ParseArgs : WarmCall("g1", <<v>>)
    \/ WarmStep("g1")
    \/ RegCheck("g1")
    \/ RegNew("g1")
    \/ RegField("g1")
    \/ RegReturn("g1")
    \/ RegDone("g1")

SpecParse == InitParse /\ [][NextParse]_vars

(***************************************************************************)
(* TagExpr.Range                                                           *)
(***************************************************************************)
\* if !fn(selector, ...) { return }; RangeNeverStops is the loop without the return
RangeNeverStops(cont) == TRUE
RangeContinues(cont) == cont

\* Range, line 401: the call starts; the goroutine is inside Range until
\* the loop ends
RangeCall(p) ==
    /\ th[p].pc = "idle"
    /\ th[p].ctx # NoId
    /\ th' = [th EXCEPT ![p].pc = "range"]
    /\ rng' = [rng EXCEPT ![p] = [NoRange EXCEPT !.te = th[p].ctx, !.i = 1]]
    /\ UNCHANGED <<structJar, heap, rw, work, failed, ptag, inst, res>>

\* Range, lines 402-407: fn is called with the next selector and the thunk;
\* fn calls the thunk or not (invoke), and returns cont
RangeVisit(p, invoke, cont) ==
    /\ th[p].pc = "range"
    /\ rng[p].i <= Len(heap[rng[p].te].selectorList)
    /\ LET s == heap[rng[p].te]
           selector == s.selectorList[rng[p].i]
           seen == Append(rng[p].seen, [sel |-> selector, invoke |-> invoke, cont |-> cont])
           evald == IF invoke
                    THEN Append(rng[p].evald, run(s.exprs[selector], getFieldSelector(selector)))
                    ELSE rng[p].evald
       IN IF RangeContinues(cont)
          THEN /\ rng' = [rng EXCEPT ![p] = [@ EXCEPT !.i = @ + 1, !.seen = seen,
                                                       !.evald = evald]]
               /\ th' = th
          ELSE /\ rng' = [rng EXCEPT ![p] = [@ EXCEPT !.seen = seen, !.evald = evald]]
               /\ th' = [th EXCEPT ![p].pc = "idle"]
    /\ UNCHANGED <<structJar, heap, rw, work, failed, ptag, inst, res>>

\* Range, line 402: the selectors are exhausted
RangeEnd(p) ==
    /\ th[p].pc = "range"
    /\ rng[p].i > Len(heap[rng[p].te].selectorList)
    /\ th' = [th EXCEPT ![p].pc = "idle"]
    /\ UNCHANGED <<structJar, heap, rw, work, failed, ptag, inst, res, rng>>

InitRange ==
    /\ InitReg
    /\ ptag = TagTwo
    /\ inst = NilBase
    /\ res = NoRes
    /\ rng = [p \in Threads |-> NoRange]

RangeArgs == {Val("Struct", 1, t) : t \in {"P", "Q"}}

NextRange ==
    \/ \E v \in RangeArgs : RunCall("g1", v)
    \/ RunRLock("g1")
    \/ RunRead("g1")
    \/ RunLock("g1")
    \/ RunRecheck("g1")
    \/ RunUnlock("g1")
    \/ newTagExpr("g1")
    \/ RegCheck("g1")
    \/ RegNew("g1")
    \/ RegField("g1")
    \/ RegReturn("g1")
    \/ RegDone("g1")
    \/ \E sel \in {<<"X", "@">>, <<"N", ".", "X", "@", "n">>} : Eval("g1", sel)
    \/ RangeCall("g1")
    \/ \E invoke \in BOOLEAN, cont \in BOOLEAN : RangeVisit("g1", invoke, cont)
    \/ RangeEnd("g1")

SpecRange == InitRange /\ [][NextRange]_vars

(***************************************************************************)
(* Field values of an instance: Run(&Inst{...}) and getValue               *)
(***************************************************************************)
\* a compiled expression asks the TagExpr for a field value
GetValue(p, field, subFields) ==
    /\ th[p].pc = "idle"
    /\ th[p].ctx # NoId
    /\ th[p].ctx.t = "Inst"
    /\ res' = [asked |-> TRUE, field |-> field, subFields |-> subFields,
               root |-> rootValue(heap[th[p].ctx], inst, field),
               val |-> getValue(heap[th[p].ctx], inst, field, subFields)]
    /\ UNCHANGED <<structJar, heap, rw, th, work, failed, ptag, inst, rng>>

SubFull == StructV([A |-> IntV(9), P |-> PtrTo(IntV(8)), C |-> ChanV])
SubNilP == StructV([A |-> IntV(9), P |-> NilPtr, C |-> ChanV])

InstFull ==
    [I |-> IntV(7), P |-> PtrTo(IntV(5)), D |-> PtrTo(PtrTo(IntV(3))),
     B |-> PtrTo(BoolV(TRUE)), S |-> PtrTo(StrV(<<"a", "b">>)), T |-> StrV(<<"a", "b">>),
     L |-> SliceV(<<IntV(1), IntV(2), IntV(3)>>), R |-> ArrayV(<<IntV(4), IntV(5)>>),
     W |-> PtrTo(SliceV(<<IntV(6)>>)),
     M |-> MapV("String", [x \in {<<"a">>} |-> IntV(1)]),
     J |-> MapV("Int", [x \in {1} |-> StrV(<<"a", "b">>)]),
     V |-> SubFull, N |-> PtrTo(SubFull), O |-> PtrTo(PtrTo(SubFull))]

\* the instances: the full one, and the full one with one field changed
FieldVariants ==
    [P |-> {NilPtr}, D |-> {NilPtr, PtrTo(NilPtr)}, B |-> {NilPtr}, S |-> {NilPtr},
     T |-> {StrV(<<>>)}, L |-> {SliceV(<<>>), [SliceV(<<>>) EXCEPT !.nil = TRUE]},
     W |-> {NilPtr}, M |-> {MapV("String", EmptyMap)}, J |-> {MapV("Int", EmptyMap)},
     V |-> {SubNilP}, N |-> {NilPtr, PtrTo(SubNilP)}, O |-> {NilPtr, PtrTo(NilPtr)}]

Instances ==
    {StructV(InstFull)} \cup
    {StructV([InstFull EXCEPT ![n] = v]) : <<n, v>> \in
        UNION {{<<n2, v2>> : v2 \in FieldVariants[n2]} : n2 \in DOMAIN FieldVariants}}

\* the subscripts an expression can pass: float64 (in halves) and string keys
SubKeys == {F64(h) : h \in {-2, -1, 0, 3, 6}} \cup {StrV(<<"a">>), StrV(<<"b">>)}
SubPaths == {<<>>} \cup {<<k>> : k \in SubKeys} \cup {<<k, F64(0)>> : k \in SubKeys}

\* the field names an expression can mention: those of the descriptor and one
\* that no record has
FieldNames(p) ==
    (IF th[p].ctx = NoId THEN {} ELSE DOMAIN heap[th[p].ctx].fields) \cup {<<"Q">>}

InitGet ==
    /\ InitReg
    /\ ptag = TagE
    /\ inst \in Instances
    /\ res = NoRes
    /\ rng = [p \in Threads |-> NoRange]

NextGet ==
    \/ RunCall("g1", Val("Struct", 1, "Inst"))
    \/ RunRLock("g1")
    \/ RunRead("g1")
    \/ RunLock("g1")
    \/ RunRecheck("g1")
    \/ RunUnlock("g1")
    \/ newTagExpr("g1")
    \/ RegCheck("g1")
    \/ RegNew("g1")
    \/ RegField("g1")
    \/ RegReturn("g1")
    \/ RegDone("g1")
    \/ \E field \in FieldNames("g1"), subFields \in SubPaths :
           GetValue("g1", field, subFields)

SpecGet == InitGet /\ [][NextGet]_vars

(***************************************************************************)
(* Properties of the registry                                              *)
(***************************************************************************)
\* the descriptor id is being filled in by the registerStructLocked call
\* that created it
Building(id) ==
    \E p \in Threads : \E i \in DOMAIN th[p].stack :
        th[p].stack[i].id = id /\ th[p].stack[i].own

\* C1: however Run and WarmUp interleave, newStruct runs at most once per
\* record type and newField at most once per field of it, and every
\* descriptor a call returns (Run's s and the TagExpr made from it) is the
\* one descriptor the registry holds for that type.
C1_BuiltOnce ==
    /\ \A t \in AllTypes :
          /\ work[t].built <= 1
          /\ work[t].fields <= Len(StructFields(t))
    /\ \A p \in Threads :
          /\ th[p].ctx # NoId => th[p].ctx = structJar[th[p].ctx.t]
          /\ th[p].s # NoId => th[p].s = structJar[th[p].s.t]

\* a goroutine that missed under the read lock finds, under the write lock,
\* the descriptor another goroutine registered meanwhile and holds in a TagExpr
C1_Witness ==
    \E p \in Threads, q \in Threads :
        /\ th[p].pc = "recheck"
        /\ had(structJar, th[p].t)
        /\ th[q].ctx = structJar[th[p].t]
        /\ work[th[p].t].built = 1

\* C2: once a registration has returned an error for a record type, the
\* registry holds no descriptor for it, and every Run or WarmUp on it that
\* has returned has returned an error.
C2_FailedRegistrationLeavesNoDescriptor ==
    /\ rw.writer = "none" => \A t \in failed : structJar[t] = NoId
    /\ \A p \in Threads :
          (th[p].pc = "idle" /\ th[p].ret.t \in failed) => th[p].ret.err # Nil

\* C8 as stated: no Run or WarmUp on a record type that reaches a pointer
\* field of its own type ever returns.
C8_RecursiveRegistrationNeverReturns ==
    \A p \in Threads : th[p].ret.t \notin RecursiveTypes

\* C8 amended: the registration of such a type re-enters the registration
\* of the same type, but the descriptor is in the registry before the fields
\* are walked, so the nested call creates nothing: a call stack never holds
\* two frames that created a descriptor for the same type, and never more
\* than two frames for one type.
C8_RecursionBounded ==
    \A p \in Threads : \A t \in AllTypes :
        LET frames == {i \in DOMAIN th[p].stack : th[p].stack[i].t = t}
        IN /\ Cardinality({i \in frames : th[p].stack[i].own}) <= 1
           /\ Cardinality(frames) <= 2
           /\ work[t].built <= 1

\* the call on the self-referential type has returned its descriptor, with
\* the fields of the partly built descriptor flattened into itself
C8_Witness ==
    /\ th["g1"].pc = "idle"
    /\ th["g1"].ret = [t |-> "Self", err |-> Nil]
    /\ had(structJar, "Self")
    /\ <<"F", ".", "F">> \in DOMAIN heap[structJar["Self"]].fields

\* C9: a TagExpr never refers to a descriptor that is being built; a
\* descriptor that is not being built is never changed by any step, and a
\* registry entry, once set, is never removed or replaced.
C9_ImmutableOncePublished ==
    /\ [](\A p \in Threads : th[p].ctx # NoId => ~Building(th[p].ctx))
    /\ [][/\ \A id \in DOMAIN heap : ~Building(id) => heap'[id] = heap[id]
          /\ \A t \in AllTypes : had(structJar, t) => structJar'[t] = structJar[t]]_vars

\* one goroutine holds a TagExpr on Good's descriptor while the other, under
\* the write lock, has flattened Good into the descriptor of Host it builds
C9_Witness ==
    \E p \in Threads, q \in Threads :
        /\ th[p].ctx # NoId /\ th[p].ctx = structJar["Good"]
        /\ th[q].pc = "reg"
        /\ had(structJar, "Host") /\ Building(structJar["Host"])
        /\ <<"G", ".", "A">> \in DOMAIN heap[structJar["Host"]].fields

(***************************************************************************)
(* Properties of the annotation parser and of Range                        *)
(***************************************************************************)
SelAnon == <<"X", "@">>
TagEmptyName == <<"{", ":", "E", "}", "{", "@", ":", "G", "}">>
TagBlankName == <<"{", " ", ":", "E", "}", "{", "@", ":", "G", "}">>
TagDup == <<"{", "@", ":", "E", "}", "{", "@", ":", "G", "}">>

\* C7: a brace group with an empty name, blank or with nothing at all before
\* the ':', is skipped: when field X of P is annotated {:E}{@:G} (or
\* { :E}{@:G}), the registration of P returns no error and leaves selector
\* X@ bound to G.
C7_EmptyNameGroupSkipped ==
    \A p \in Threads :
        (/\ th[p].pc = "reg"
         /\ Len(th[p].stack) = 1
         /\ Top(p).t = "P" /\ Top(p).own
         /\ Returning(Top(p))
         /\ ptag \in {TagEmptyName, TagBlankName})
        => /\ Top(p).err = Nil
           /\ SelAnon \in DOMAIN heap[Top(p).id].exprs
           /\ heap[Top(p).id].exprs[SelAnon] = <<"G">>

NoDuplicates(seq) == \A i \in DOMAIN seq, j \in DOMAIN seq : seq[i] = seq[j] => i = j

RECURSIVE Invoked(_)
Invoked(seen) ==
    IF seen = <<>> THEN <<>>
    ELSE (IF Head(seen).invoke THEN <<Head(seen).sel>> ELSE <<>>) \o Invoked(Tail(seen))

\* C6: during and after a Range call, the selectors fn was called with are
\* a prefix of the descriptor's selectorList, in its order; fn returned true
\* for all of them but possibly the last; and the expressions run are those
\* of the selectors whose thunk fn called, in that order, each run once.
C6_RangeInOrderUntilFalse ==
    \A p \in Threads :
        rng[p].te # NoId =>
            LET s == heap[rng[p].te]
                seen == rng[p].seen
                invoked == Invoked(seen)
            IN /\ Len(seen) <= Len(s.selectorList)
               /\ \A i \in DOMAIN seen : seen[i].sel = s.selectorList[i]
               /\ \A i \in DOMAIN seen : i < Len(seen) => seen[i].cont
               /\ Len(rng[p].evald) = Len(invoked)
               /\ \A i \in DOMAIN invoked :
                     rng[p].evald[i] = run(s.exprs[invoked[i]], getFieldSelector(invoked[i]))

\* a Range over the five selectors of Q that fn stopped at the second,
\* having called the thunk of the first only
C6_Witness ==
    /\ th["g1"].pc = "idle"
    /\ rng["g1"].te = structJar["Q"] /\ had(structJar, "Q")
    /\ Len(heap[rng["g1"].te].selectorList) = 5
    /\ Len(rng["g1"].seen) = 2
    /\ ~rng["g1"].seen[2].cont
    /\ Len(rng["g1"].evald) = 1 /\ rng["g1"].seen[1].invoke

(***************************************************************************)
(* Properties of getValue                                                  *)
(***************************************************************************)
\* some pointer of the n pointer layers starting at v is nil
RECURSIVE nilWithin(_, _)
nilWithin(v, n) == n > 0 /\ v.k = "Ptr" /\ (v.nil \/ nilWithin(v.elem, n - 1))

\* some pointer on the chain that getter g follows from base is nil
RECURSIVE NilOnChain(_, _)
NilOnChain(g, base) ==
    /\ g # <<>>
    /\ LET st == Head(g)
           v == base.f[st.name]
       IN \/ nilWithin(v, st.deep)
          \/ st.op = "sub" /\ NilOnChain(Tail(g), elemTimes(v, st.deep))

\* C3: for a field reached through pointers (a pointer field, or a field
\* flattened from a nested record held by pointer), when a pointer of the
\* chain is nil in the instance the field's getter returns nil and does not
\* fault.
C3_NilPointerYieldsNil ==
    (/\ res.asked
     /\ res.field \in DOMAIN heap[structJar["Inst"]].fields
     /\ NilOnChain(heap[structJar["Inst"]].fields[res.field].getter, inst))
    => res.root = NilV

\* the value the first subscript applies to is a sequence, array or text and
\* the subscript is a number whose integer position is outside 0..n-1
OutOfRange ==
    /\ res.asked
    /\ res.root.k \in {"Slice", "Array", "String"}
    /\ res.subFields # <<>>
    /\ Head(res.subFields).k = "Float64"
    /\ ToInt(Head(res.subFields).h) \notin 0 .. (seqLen(res.root) - 1)

\* C4: a numeric subscript of a sequence, array or text whose position is at
\* or past the end, or negative, makes getValue return nil without a fault.
C4_OutOfRangeYieldsNil == OutOfRange => res.val = NilV

\* the value the first subscript applies to is a map and the subscript
\* converts to a key that the map does not hold
AbsentKey ==
    /\ res.asked
    /\ res.root.k = "Map"
    /\ res.subFields # <<>>
    /\ safeConvert(Head(res.subFields), res.root.key).ok
    /\ safeConvert(Head(res.subFields), res.root.key).key \notin DOMAIN res.root.m

\* C5: a subscript whose converted key is absent from the map makes getValue
\* return nil without a fault, as the last subscript or followed by others.
C5_AbsentKeyYieldsNil == AbsentKey => res.val = NilV

====
